---- MODULE Spec2Model ----
(***************************************************************************)
(* Model of the todo HTTP API of src/app.py: the four /api/todos handlers, *)
(* the Flask error handlers they reach through abort(), and the part of    *)
(* the SQLAlchemy session / PostgreSQL table they drive.                   *)
(*                                                                         *)
(* Spec      one request at a time, each handler one atomic action.        *)
(* SpecConc  two PATCH requests, each on its own session, whose steps      *)
(*           (load, set fields, flush, commit, refresh) interleave.        *)
(***************************************************************************)
EXTENDS Integers, Sequences, FiniteSets, TLC

VARIABLES
    todos,          \* the committed rows of table "todos": a set of records
    todos_id_seq,   \* last value handed out by the id column's sequence
    req,            \* the request handled last   (sequential run)
    resp,           \* the response to it
    before,         \* the rows of the table when that request arrived
    issued,         \* ids returned by the 201 responses so far, in order
    deleted,        \* ids whose DELETE returned 204
    pc,             \* SpecConc: position of each PATCH request in update_todo
    creq,           \* SpecConc: the request of each worker
    sess,           \* SpecConc: each worker's session (identity map, txn)
    cresp,          \* SpecConc: each worker's response
    rowLock,        \* SpecConc: worker whose open txn has updated the row
    commits         \* SpecConc: workers in the order their COMMIT succeeded

vars == <<todos, todos_id_seq, req, resp, before, issued, deleted,
          pc, creq, sess, cresp, rowLock, commits>>

seqVars == <<todos, todos_id_seq, req, resp, before, issued, deleted>>
concVars == <<pc, creq, sess, cresp, rowLock, commits>>

----------------------------------------------------------------------------
(* Bounds of the model *)

\* the id sequence is capped: no INSERT once it has handed out MaxSeq
MaxSeq == 2

\* ids a client may put in the path: issued ones and ones not issued yet
PathIds == 1..MaxSeq

----------------------------------------------------------------------------
(* Request bodies *)

\* JSON strings are sequences of characters; " " and "\t" are whitespace
Whitespace == {" ", "\t"}

TitleStrings ==
    { <<>>, <<"\t", " ">>, <<" ", "a", "\t">>, <<"b", " ", "a">> }

\* the value under "title": absent key, null, a number (5), or a string
TitleValues ==
    { [t |-> "absent", s |-> <<>>], [t |-> "null", s |-> <<>>],
      [t |-> "num", s |-> <<>>] }
    \cup { [t |-> "str", s |-> s] : s \in TitleStrings }

\* the value under "completed": absent key, null, true, false
CompletedValues == {"absent", "null", "true", "false"}

\* kind: no body, a body that is not JSON, the JSON array [1], a JSON object
Bodies ==
    { [kind |-> k, title |-> [t |-> "absent", s |-> <<>>], completed |-> "absent"] :
        k \in {"absent", "malformed", "array"} }
    \cup { [kind |-> "object", title |-> tv, completed |-> cv] :
             tv \in TitleValues, cv \in CompletedValues }

NoBody == [kind |-> "absent", title |-> [t |-> "absent", s |-> <<>>], completed |-> "absent"]

----------------------------------------------------------------------------
(* Python helpers used by the handlers *)

RECURSIVE LStrip(_)
LStrip(s) ==
    IF s = <<>> THEN <<>>
    ELSE IF Head(s) \in Whitespace THEN LStrip(Tail(s)) ELSE s

RECURSIVE RStrip(_)
RStrip(s) ==
    IF s = <<>> THEN <<>>
    ELSE IF s[Len(s)] \in Whitespace THEN RStrip(SubSeq(s, 1, Len(s) - 1)) ELSE s

\* str.strip()
Strip(s) == RStrip(LStrip(s))

\* request.get_json(silent=True) or {} : no body and a body that does not
\* parse give None, hence {}; an array and an object are kept as they are
GetJson(body) ==
    IF body.kind \in {"absent", "malformed"}
    THEN [kind |-> "object", title |-> [t |-> "absent", s |-> <<>>], completed |-> "absent"]
    ELSE body

\* "title" in data / "completed" in data ; the array [1] holds neither string
HasTitle(data) == data.kind = "object" /\ data.title.t # "absent"
HasCompleted(data) == data.kind = "object" /\ data.completed # "absent"

\* (data.get("title") or "").strip() : raises AttributeError when data is a
\* list (no .get) or the title is a truthy non-string (no .strip)
TitleRaises(data) == data.kind = "array" \/ data.title.t = "num"

\* variant: the title is taken as sent, .strip() left out
StrippedTitleNotStripped(data) ==
    IF data.title.t = "str" THEN data.title.s ELSE <<>>

StrippedTitle(data) ==
    IF data.title.t = "str" THEN Strip(data.title.s) ELSE <<>>

\* bool(data.get("completed"))
BoolCompleted(data) == data.completed = "true"

----------------------------------------------------------------------------
(* Rows and responses *)

NoTodo == [id |-> 0, title |-> <<>>, completed |-> FALSE]

\* Todo.to_dict
ToDict(todo) == [id |-> todo.id, title |-> todo.title, completed |-> todo.completed]

Response(status, error, todo, list) ==
    [status |-> status, error |-> error, todo |-> todo, list |-> list]

NoResponse == Response(0, "", NoTodo, <<>>)

\* @app.errorhandler(Exception)
HandleException == Response(500, "Internal server error", NoTodo, <<>>)

\* @app.errorhandler(404)
HandleNotFound(description) == Response(404, "Not found", NoTodo, <<>>)

\* @app.errorhandler(400) : str(e) of an HTTPException is "<code> <name>: <description>"
HandleBadRequest(description) ==
    Response(400, "400 Bad Request: " \o description, NoTodo, <<>>)

\* @app.errorhandler(500)
HandleInternalError(description) == Response(500, "Internal server error", NoTodo, <<>>)

\* abort(code, description=...) : Flask picks the handler registered for the code
Abort(code, description) ==
    CASE code = 404 -> HandleNotFound(description)
      [] code = 400 -> HandleBadRequest(description)
      [] code = 500 -> HandleInternalError(description)
      [] OTHER -> HandleException

----------------------------------------------------------------------------
(* The session and the table *)

RowIds(rows) == { r.id : r \in rows }

\* session.get(Todo, todo_id)
SessionGet(rows, todo_id) ==
    IF \E r \in rows : r.id = todo_id
    THEN CHOOSE r \in rows : r.id = todo_id
    ELSE NoTodo

MaxId(ids) == CHOOSE m \in ids : \A i \in ids : i <= m

\* variant: the id is one more than the largest id in the table
NextValMaxPlusOne(rows, seq) ==
    IF rows = {} THEN 1 ELSE MaxId(RowIds(rows)) + 1

\* nextval of the SERIAL column's sequence: never goes back
NextVal(rows, seq) == seq + 1

\* variant: order_by(Todo.id) without .desc()
OrderByIdAsc(rows) ==
    [i \in 1..Cardinality(rows) |->
        CHOOSE r \in rows : Cardinality({ o \in rows : o.id < r.id }) = i - 1]

\* session.query(Todo).order_by(Todo.id.desc()).all() : the row at place i
\* is the one with i - 1 rows of larger id
OrderByIdDesc(rows) ==
    [i \in 1..Cardinality(rows) |->
        CHOOSE r \in rows : Cardinality({ o \in rows : o.id > r.id }) = i - 1]

\* flush of session.add(todo) : INSERT of the new row under the given id
Insert(rows, id, title) ==
    rows \cup { [id |-> id, title |-> title, completed |-> FALSE] }

\* the columns the unit of work puts in the UPDATE: those whose attribute
\* differs from the value loaded
Dirty(loaded, obj) ==
    { c \in {"title", "completed"} :
        (c = "title" /\ obj.title # loaded.title)
        \/ (c = "completed" /\ obj.completed # loaded.completed) }

\* flush of a loaded object: UPDATE todos SET <dirty columns> WHERE id = ...
Update(rows, loaded, obj) ==
    { IF r.id = loaded.id
      THEN [id |-> r.id,
            title |-> IF "title" \in Dirty(loaded, obj) THEN obj.title ELSE r.title,
            completed |-> IF "completed" \in Dirty(loaded, obj)
                          THEN obj.completed ELSE r.completed]
      ELSE r : r \in rows }

\* variant: session.delete(todo) left out, nothing is removed
DeleteNothing(rows, todo) == rows

\* flush of session.delete(todo) : DELETE FROM todos WHERE id = ...
Delete(rows, todo) == { r \in rows : r.id # todo.id }

\* variant: no rollback, what was flushed stays
RollbackKeepsFlushed(rowsBefore, rowsFlushed) == rowsFlushed

\* session.rollback() : the table is as it was before the transaction
Rollback(rowsBefore, rowsFlushed) == rowsBefore

----------------------------------------------------------------------------
(* update_todo, lines 156-168: the fields of the body applied to the object *)

\* variant: completed is assigned whether or not the body has the key
SetFieldsCompletedAlways(todo, data) ==
    IF HasTitle(data) /\ TitleRaises(data)
    THEN [outcome |-> "raise", obj |-> todo]
    ELSE IF HasTitle(data) /\ StrippedTitle(data) = <<>>
    THEN [outcome |-> "400", obj |-> todo]
    ELSE [outcome |-> "ok",
          obj |-> [id |-> todo.id,
                   title |-> IF HasTitle(data) THEN StrippedTitle(data) ELSE todo.title,
                   completed |-> BoolCompleted(data)]]

\* variant: the check for an empty title is left out
SetFieldsNoEmptyCheck(todo, data) ==
    IF HasTitle(data) /\ TitleRaises(data)
    THEN [outcome |-> "raise", obj |-> todo]
    ELSE [outcome |-> "ok",
          obj |-> [id |-> todo.id,
                   title |-> IF HasTitle(data) THEN StrippedTitle(data) ELSE todo.title,
                   completed |-> IF HasCompleted(data) THEN BoolCompleted(data)
                                 ELSE todo.completed]]

\* outcome "400": abort(400); "raise": AttributeError; "ok": obj is the result
SetFields(todo, data) ==
    IF HasTitle(data) /\ TitleRaises(data)
    THEN [outcome |-> "raise", obj |-> todo]
    ELSE IF HasTitle(data) /\ StrippedTitle(data) = <<>>
    THEN [outcome |-> "400", obj |-> todo]
    ELSE [outcome |-> "ok",
          obj |-> [id |-> todo.id,
                   title |-> IF HasTitle(data) THEN StrippedTitle(data) ELSE todo.title,
                   completed |-> IF HasCompleted(data) THEN BoolCompleted(data)
                                 ELSE todo.completed]]

\* variant: the body is validated before the record is looked up
UpdateBranchValidateFirst(todo, data) ==
    IF SetFields(todo, data).outcome = "ok" /\ todo = NoTodo THEN "404"
    ELSE SetFields(todo, data).outcome

\* update_todo, lines 151-161: which way the handler leaves; "404" when
\* session.get found nothing, else what setting the fields comes to
UpdateBranch(todo, data) ==
    IF todo = NoTodo THEN "404" ELSE SetFields(todo, data).outcome

----------------------------------------------------------------------------
(* Sequential handlers *)

Request(method, id, body) == [method |-> method, id |-> id, body |-> body]

Answer(r, a, rows, seq) ==
    /\ req' = r
    /\ resp' = a
    /\ before' = todos
    /\ todos' = rows
    /\ todos_id_seq' = seq

\* GET /api/todos
ListTodos ==
    /\ Answer(Request("GET", 0, NoBody),
              Response(200, "", NoTodo, [i \in 1..Cardinality(todos) |->
                                            ToDict(OrderByIdDesc(todos)[i])]),
              todos, todos_id_seq)
    /\ UNCHANGED <<issued, deleted, concVars>>

\* POST /api/todos
CreateTodo ==
    /\ \E body \in Bodies :
        LET data == GetJson(body)
            r == Request("POST", 0, body)
            id == NextVal(todos, todos_id_seq)
        IN  IF TitleRaises(data)
            THEN /\ Answer(r, HandleException, todos, todos_id_seq)
                 /\ UNCHANGED <<issued, deleted>>
            ELSE IF StrippedTitle(data) = <<>>
            THEN /\ Answer(r, Abort(400, "title is required"), todos, todos_id_seq)
                 /\ UNCHANGED <<issued, deleted>>
            ELSE /\ id <= MaxSeq
                 /\ \/ /\ Answer(r,
                                Response(201, "",
                                    ToDict(SessionGet(Insert(todos, id, StrippedTitle(data)), id)),
                                    <<>>),
                                Insert(todos, id, StrippedTitle(data)), id)
                         /\ issued' = Append(issued, id)
                         /\ UNCHANGED deleted
                    \* the INSERT or the COMMIT is rejected; the sequence
                    \* may or may not have been advanced by then
                    \/ \E seq_used \in BOOLEAN :
                         /\ Answer(r, Abort(500, "SQLAlchemyError"),
                                Rollback(todos, Insert(todos, id, StrippedTitle(data))),
                                IF seq_used THEN id ELSE todos_id_seq)
                         /\ UNCHANGED <<issued, deleted>>
    /\ UNCHANGED concVars

\* PATCH /api/todos/<int:todo_id>
UpdateTodo ==
    /\ \E todo_id \in PathIds, body \in Bodies :
        LET data == GetJson(body)
            r == Request("PATCH", todo_id, body)
            todo == SessionGet(todos, todo_id)
            set == SetFields(todo, data)
            flushed == Update(todos, todo, set.obj)
            branch == UpdateBranch(todo, data)
        IN  IF branch = "404"
            THEN Answer(r, Abort(404, "todo not found"), todos, todos_id_seq)
            ELSE IF branch = "raise"
            THEN Answer(r, HandleException, todos, todos_id_seq)
            ELSE IF branch = "400"
            THEN Answer(r, Abort(400, "title cannot be empty"), todos, todos_id_seq)
            ELSE \/ Answer(r, Response(200, "", ToDict(SessionGet(flushed, todo_id)), <<>>),
                           flushed, todos_id_seq)
                 \* the UPDATE or the COMMIT is rejected
                 \/ Answer(r, Abort(500, "SQLAlchemyError"),
                           Rollback(todos, flushed), todos_id_seq)
    /\ UNCHANGED <<issued, deleted, concVars>>

\* DELETE /api/todos/<int:todo_id>
DeleteTodo ==
    /\ \E todo_id \in PathIds :
        LET r == Request("DELETE", todo_id, NoBody)
            todo == SessionGet(todos, todo_id)
        IN  IF todo = NoTodo
            THEN /\ Answer(r, Abort(404, "todo not found"), todos, todos_id_seq)
                 /\ UNCHANGED deleted
            ELSE \/ /\ Answer(r, Response(204, "", NoTodo, <<>>),
                              Delete(todos, todo), todos_id_seq)
                    /\ deleted' = deleted \cup {todo_id}
                 \* the DELETE or the COMMIT is rejected
                 \/ /\ Answer(r, Abort(500, "SQLAlchemyError"),
                              Rollback(todos, Delete(todos, todo)), todos_id_seq)
                    /\ UNCHANGED deleted
    /\ UNCHANGED <<issued, concVars>>

----------------------------------------------------------------------------
(* The sequential specification *)

\* Base.metadata.create_all(engine) on a fresh database: an empty table
Init ==
    /\ todos = {}
    /\ todos_id_seq = 0
    /\ req = Request("NONE", 0, NoBody)
    /\ resp = NoResponse
    /\ before = {}
    /\ issued = <<>>
    /\ deleted = {}
    /\ pc = <<>>
    /\ creq = <<>>
    /\ sess = <<>>
    /\ cresp = <<>>
    /\ rowLock = 0
    /\ commits = <<>>

Next == ListTodos \/ CreateTodo \/ UpdateTodo \/ DeleteTodo

Spec == Init /\ [][Next]_vars

----------------------------------------------------------------------------
(* Concurrent PATCH requests: update_todo step by step, one session each *)

Workers == {1, 2}

NoSession == [loaded |-> NoTodo, obj |-> NoTodo, updated |-> FALSE]

\* tables the sequential run leaves behind with one row in them
StoredTitles == { Strip(s) : s \in TitleStrings } \ {<<>>}

InitConc ==
    /\ \E t \in StoredTitles, c \in BOOLEAN :
          todos = { [id |-> 1, title |-> t, completed |-> c] }
    /\ todos_id_seq = 1
    /\ req = Request("NONE", 0, NoBody)
    /\ resp = NoResponse
    /\ before = {}
    /\ issued = <<1>>
    /\ deleted = {}
    /\ pc = [w \in Workers |-> "idle"]
    /\ creq = [w \in Workers |-> Request("NONE", 0, NoBody)]
    /\ sess = [w \in Workers |-> NoSession]
    /\ cresp = [w \in Workers |-> NoResponse]
    /\ rowLock = 0
    /\ commits = <<>>

Finish(w, a) ==
    /\ cresp' = [cresp EXCEPT ![w] = a]
    /\ pc' = [pc EXCEPT ![w] = "done"]

\* lines 143-148: the request arrives, its body is parsed, a session is opened
Receive(w) ==
    /\ pc[w] = "idle"
    /\ \E todo_id \in PathIds, body \in Bodies :
          creq' = [creq EXCEPT ![w] = Request("PATCH", todo_id, body)]
    /\ pc' = [pc EXCEPT ![w] = "get"]
    /\ UNCHANGED <<seqVars, sess, cresp, rowLock, commits>>

\* lines 151-154: session.get reads the committed row (READ COMMITTED)
Get(w) ==
    /\ pc[w] = "get"
    /\ LET todo == SessionGet(todos, creq[w].id)
       IN  IF todo = NoTodo
           THEN /\ Finish(w, Abort(404, "todo not found"))
                /\ UNCHANGED sess
           ELSE /\ sess' = [sess EXCEPT ![w] = [loaded |-> todo, obj |-> todo,
                                                 updated |-> FALSE]]
                /\ pc' = [pc EXCEPT ![w] = "set"]
                /\ UNCHANGED cresp
    /\ UNCHANGED <<seqVars, creq, rowLock, commits>>

\* lines 156-170: the fields of the body are set on the loaded object
Set(w) ==
    /\ pc[w] = "set"
    /\ LET set == SetFields(sess[w].loaded, GetJson(creq[w].body))
       IN  CASE set.outcome = "raise" ->
                  /\ Finish(w, HandleException)
                  /\ UNCHANGED sess
             [] set.outcome = "400" ->
                  /\ Finish(w, Abort(400, "title cannot be empty"))
                  /\ UNCHANGED sess
             [] OTHER ->
                  /\ sess' = [sess EXCEPT ![w].obj = set.obj]
                  /\ pc' = [pc EXCEPT ![w] = "flush"]
                  /\ UNCHANGED cresp
    /\ UNCHANGED <<seqVars, creq, rowLock, commits>>

\* line 171, first half: session.commit() flushes. An UPDATE is sent only
\* when a column is dirty; it waits while another open transaction has
\* updated the row, and then holds the row until its own transaction ends
Flush(w) ==
    /\ pc[w] = "flush"
    /\ IF Dirty(sess[w].loaded, sess[w].obj) = {}
       THEN UNCHANGED <<sess, rowLock>>
       ELSE /\ rowLock = 0
            /\ rowLock' = w
            /\ sess' = [sess EXCEPT ![w].updated = TRUE]
    /\ pc' = [pc EXCEPT ![w] = "commit"]
    /\ UNCHANGED <<seqVars, creq, cresp, commits>>

\* line 171, second half: COMMIT makes the UPDATE visible and frees the row
Commit(w) ==
    /\ pc[w] = "commit"
    /\ todos' = IF sess[w].updated
                THEN Update(todos, sess[w].loaded, sess[w].obj)
                ELSE todos
    /\ rowLock' = IF rowLock = w THEN 0 ELSE rowLock
    /\ commits' = Append(commits, w)
    /\ pc' = [pc EXCEPT ![w] = "refresh"]
    /\ UNCHANGED <<todos_id_seq, req, resp, before, issued, deleted, creq, sess, cresp>>

\* lines 176-179: the commit is rejected; rollback, abort(500)
CommitFails(w) ==
    /\ pc[w] = "commit"
    /\ rowLock' = IF rowLock = w THEN 0 ELSE rowLock
    /\ Finish(w, Abort(500, "SQLAlchemyError"))
    /\ UNCHANGED <<seqVars, creq, sess, commits>>

\* lines 172-175: session.refresh reads the row again; 200 with what it reads
Refresh(w) ==
    /\ pc[w] = "refresh"
    /\ Finish(w, Response(200, "", ToDict(SessionGet(todos, creq[w].id)), <<>>))
    /\ UNCHANGED <<seqVars, creq, sess, rowLock, commits>>

NextConc ==
    \E w \in Workers :
        \/ Receive(w) \/ Get(w) \/ Set(w) \/ Flush(w)
        \/ Commit(w) \/ CommitFails(w) \/ Refresh(w)

SpecConc == InitConc /\ [][NextConc]_vars

----------------------------------------------------------------------------
(* Properties *)

Mutating == req.method \in {"POST", "PATCH", "DELETE"}

\* a string with no character other than whitespace (the empty one included)
WhitespaceOnly(s) == \A i \in 1..Len(s) : s[i] \in Whitespace

\* t is s without its leading and trailing whitespace
IsTrimOf(t, s) ==
    /\ t # <<>>
    /\ t[1] \notin Whitespace
    /\ t[Len(t)] \notin Whitespace
    /\ \E i \in 1..Len(s) :
          /\ i + Len(t) - 1 <= Len(s)
          /\ SubSeq(s, i, i + Len(t) - 1) = t
          /\ WhitespaceOnly(SubSeq(s, 1, i - 1))
          /\ WhitespaceOnly(SubSeq(s, i + Len(t), Len(s)))

OldRow == SessionGet(before, req.id)
NewRow == SessionGet(todos, req.id)

TitleKeyPresent == req.body.kind = "object" /\ req.body.title.t # "absent"
CompletedKeyPresent == req.body.kind = "object" /\ req.body.completed # "absent"

\* C1: the ids returned by successful POSTs are strictly increasing in the
\* order of the POSTs (so an id is never issued twice, whether or not its
\* record was deleted since); a successful POST returns the id issued last;
\* and no PATCH changes the id of a record: after a PATCH the table holds
\* the same ids, once each, and a 200 carries the id of the path.
C1_IdsMonotonicNeverMutated ==
    /\ \A i, j \in 1..Len(issued) : i < j => issued[i] < issued[j]
    /\ (req.method = "POST" /\ resp.status = 201) =>
          /\ resp.todo.id = issued[Len(issued)]
          /\ resp.todo.id \notin RowIds(before)
          /\ resp.todo.id \notin deleted
    /\ req.method = "PATCH" =>
          /\ RowIds(todos) = RowIds(before)
          /\ Cardinality(todos) = Cardinality(RowIds(todos))
          /\ (resp.status = 200 => resp.todo.id = req.id)

\* a POST succeeds after the record of an earlier POST was deleted
C1_Witness ==
    /\ req.method = "POST"
    /\ resp.status = 201
    /\ Len(issued) >= 2
    /\ issued[1] \in deleted

\* C2: a request whose title is empty after trimming gets 400 and leaves
\* the table as it was: a POST with no body, a body that does not parse, no
\* title key, the title "" or a whitespace-only title; a PATCH on an
\* existing id whose title key holds "" or a whitespace-only string, also
\* when the body supplies completed as well.
C2_EmptyTitleRejected ==
    /\ ( /\ req.method = "POST"
         /\ \/ req.body.kind \in {"absent", "malformed"}
            \/ req.body.kind = "object" /\ req.body.title.t = "absent"
            \/ req.body.kind = "object" /\ req.body.title.t = "str"
                 /\ WhitespaceOnly(req.body.title.s) )
         => (resp.status = 400 /\ todos = before)
    /\ ( /\ req.method = "PATCH"
         /\ req.id \in RowIds(before)
         /\ req.body.kind = "object"
         /\ req.body.title.t = "str"
         /\ WhitespaceOnly(req.body.title.s) )
         => (resp.status = 400 /\ todos = before /\ NewRow = OldRow)

\* a PATCH with a whitespace-only title and a completed that differs from
\* the stored one is answered 400
C2_Witness ==
    /\ req.method = "PATCH"
    /\ req.id \in RowIds(before)
    /\ req.body.title = [t |-> "str", s |-> <<"\t", " ">>]
    /\ req.body.completed = "true"
    /\ ~OldRow.completed
    /\ resp.status = 400

\* C3: a PATCH on an id that has no record gets 404 whatever the body, an
\* empty or whitespace-only title included (never 400), and the table is
\* as it was.
C3_PatchMissingIs404 ==
    (req.method = "PATCH" /\ req.id \notin RowIds(before))
        => (resp.status = 404 /\ todos = before)

\* a PATCH with a whitespace-only title on an id without record gets 404
C3_Witness ==
    /\ req.method = "PATCH"
    /\ req.id \notin RowIds(before)
    /\ before # {}
    /\ TitleKeyPresent
    /\ req.body.title.t = "str"
    /\ WhitespaceOnly(req.body.title.s)
    /\ resp.status = 404

\* C4: a PATCH answered 200 changes only the fields whose key the body
\* has: without the title key the title stays, without the completed key
\* completed stays, a key that is present is written, every other record is
\* as it was; a PATCH on an existing id whose body has neither key (no
\* body and a body that does not parse included) is answered 200, or 500
\* when the store rejects the commit, and the table is as it was.
C4_PatchOnlyPresentFields ==
    /\ (req.method = "PATCH" /\ resp.status = 200) =>
          /\ req.id \in RowIds(before)
          /\ { r \in todos : r.id # req.id } = { r \in before : r.id # req.id }
          /\ ~TitleKeyPresent => NewRow.title = OldRow.title
          /\ ~CompletedKeyPresent => NewRow.completed = OldRow.completed
          /\ TitleKeyPresent => IsTrimOf(NewRow.title, req.body.title.s)
          /\ CompletedKeyPresent => NewRow.completed = (req.body.completed = "true")
          /\ resp.todo = NewRow
    /\ ( /\ req.method = "PATCH"
         /\ req.id \in RowIds(before)
         /\ ~TitleKeyPresent
         /\ ~CompletedKeyPresent )
         => (resp.status \in {200, 500} /\ todos = before)

\* a PATCH with only the title key changes the title of a completed record
\* while another record is in the table
C4_Witness ==
    /\ req.method = "PATCH"
    /\ resp.status = 200
    /\ TitleKeyPresent
    /\ ~CompletedKeyPresent
    /\ OldRow.completed
    /\ NewRow.title # OldRow.title
    /\ Cardinality(todos) >= 2

\* C5: once a DELETE on an id was answered 204, the id has no record in any
\* later state: it is not in the table, not in the list a GET returns, and
\* a later PATCH or DELETE on it is answered 404.
C5_DeletedStaysDeleted ==
    /\ deleted \cap RowIds(todos) = {}
    /\ req.method = "GET" =>
          \A i \in 1..Len(resp.list) : resp.list[i].id \notin deleted
    /\ ( /\ req.method \in {"PATCH", "DELETE"}
         /\ req.id \in deleted
         /\ ~(req.method = "DELETE" /\ resp.status = 204) )
         => resp.status = 404

\* a DELETE on an id deleted before, after the sequence went on to issue a
\* larger id, is answered 404
C5_Witness ==
    /\ req.method = "DELETE"
    /\ req.id \in deleted
    /\ resp.status = 404
    /\ todos_id_seq > req.id
    /\ todos # {}

\* C6: a GET is answered 200 with exactly the rows of the table, each once,
\* in strictly descending order of id; a 201 carries the new id, the
\* trimmed title and completed = false; and when a GET follows a 201
\* directly, the first element of its list is the object the 201 carried.
C6_ListNewestFirst ==
    /\ [](req.method = "GET" =>
            /\ resp.status = 200
            /\ Len(resp.list) = Cardinality(todos)
            /\ { resp.list[i] : i \in 1..Len(resp.list) } = todos
            /\ \A i, j \in 1..Len(resp.list) :
                  i < j => resp.list[i].id > resp.list[j].id)
    /\ []((req.method = "POST" /\ resp.status = 201) =>
            /\ IsTrimOf(resp.todo.title, req.body.title.s)
            /\ ~resp.todo.completed
            /\ resp.todo \in todos
            /\ resp.todo.id \notin RowIds(before))
    /\ [][(req.method = "POST" /\ resp.status = 201 /\ req'.method = "GET")
            => (resp'.list # <<>> /\ resp'.list[1] = resp.todo)]_vars

\* a GET lists two records
C6_Witness ==
    /\ req.method = "GET"
    /\ Len(resp.list) = 2
    /\ resp.list[1].id = 2
    /\ resp.list[2].id = 1

\* C7: a DELETE or PATCH on an id without record is answered 404 with the
\* body {"error": "todo not found"}.
C7_NotFoundDescription ==
    (req.method \in {"PATCH", "DELETE"} /\ resp.status = 404)
        => resp.error = "todo not found"

\* C8: no stored title is empty or whitespace-only.
C8_TitleNeverBlank ==
    \A r \in todos : ~WhitespaceOnly(r.title)

\* a PATCH has replaced a title by one sent with whitespace around it
C8_Witness ==
    /\ req.method = "PATCH"
    /\ resp.status = 200
    /\ req.body.title = [t |-> "str", s |-> <<" ", "a", "\t">>]
    /\ OldRow.title # <<"a">>
    /\ NewRow.title = <<"a">>

\* the store rejected the write of the request handled last: a 500 that
\* does not come from the body making the handler raise
StorageError ==
    /\ Mutating
    /\ resp.status = 500
    /\ ~(req.method = "POST" /\ TitleRaises(GetJson(req.body)))
    /\ ~(req.method = "PATCH" /\ HasTitle(GetJson(req.body))
           /\ TitleRaises(GetJson(req.body)))

\* C9: when the store rejects the write of a POST, PATCH or DELETE, the
\* answer is 500 with the body {"error": "Internal server error"} and the
\* table is as it was before the request.
C9_StorageErrorAtomic ==
    StorageError =>
        /\ resp.error = "Internal server error"
        /\ resp.todo = NoTodo
        /\ todos = before

\* the commit of a PATCH that sets a new title and a new completed fails
C9_Witness ==
    /\ StorageError
    /\ req.method = "PATCH"
    /\ TitleKeyPresent
    /\ CompletedKeyPresent
    /\ Strip(req.body.title.s) # OldRow.title
    /\ (req.body.completed = "true") # OldRow.completed

\* C10: when two PATCH requests on the same existing id interleave, both
\* supply a field and both are answered 200, the stored value of the field
\* is then the one supplied by the request that committed last.
C10_LastWriteWins ==
    ( /\ \A w \in Workers : pc[w] = "done" /\ cresp[w].status = 200
      /\ creq[1].id = creq[2].id )
    => LET last == commits[Len(commits)]
           row == SessionGet(todos, creq[last].id)
       IN  /\ (\A w \in Workers : HasTitle(GetJson(creq[w].body)))
                => row.title = StrippedTitle(GetJson(creq[last].body))
           /\ (\A w \in Workers : HasCompleted(GetJson(creq[w].body)))
                => row.completed = BoolCompleted(GetJson(creq[last].body))

====
